---- MODULE Spec2Model ----
(***************************************************************************)
(* Registration lifecycle of the kermesse ticketing backend (server.js):   *)
(* POST /create-checkout, POST /confirm-payment, POST /verify,             *)
(* GET /admin/registrations, and the no-payment POST /register.            *)
(* Every handler is an async function: the code between two awaits runs    *)
(* without interruption, the awaited remote call (store, gateway,          *)
(* notifier) takes effect atomically, and other requests interleave at     *)
(* the awaits.  One action below is one such step of one request.  The     *)
(* code before a handler's first await reads no shared state, so a request *)
(* is taken to arrive when its first awaited call takes effect.            *)
(***************************************************************************)
EXTENDS Integers, Sequences, FiniteSets

\* ------------------------------------------------------------------ bounds
NumProcs == 2       \* requests that can be in flight at the same time
MaxIds == 2         \* identifiers uuidv4() hands out in a run
MaxSent == 2        \* ticket emails per identifier the notifier accepts in a run
MaxClock == 4       \* readings of the wall clock in a run

Procs == 1..NumProcs
Ids == 1..MaxIds

\* ------------------------------------------------------------- environment
ADMIN_PASSWORD == "secret"
Passwords == {"secret", "guess"}
NoId == 0                       \* a request body without id
NoSessionId == 0                \* a request body without session_id
NULL == 0                       \* SQL NULL of a timestamp column
Emails == {"a@x", "b@x"}

\* Request bodies of POST /create-checkout: one complete body per tier (two of
\* them with the same email), and one body per way of being incomplete or
\* naming no tier of the price table: "gold" is no property of TIERS at all,
\* "constructor" is a property TIERS inherits from Object.prototype.
CheckoutBodies ==
  {[name |-> "Ana", email |-> "a@x", tier |-> "early"],
   [name |-> "Ana", email |-> "b@x", tier |-> "general"],
   [name |-> "Ana", email |-> "a@x", tier |-> "vip"]}
  \cup {[name |-> "",    email |-> "a@x", tier |-> "general"],
        [name |-> "Ana", email |-> "",    tier |-> "general"],
        [name |-> "Ana", email |-> "a@x", tier |-> ""],
        [name |-> "Ana", email |-> "a@x", tier |-> "gold"],
        [name |-> "Ana", email |-> "a@x", tier |-> "constructor"]}

\* Every request body of POST /create-checkout over two names, two emails (or
\* none) and the tier names above.
AllCheckoutBodies ==
  [name : {"Ana", "Bea", ""}, email : Emails \cup {""},
   tier : {"early", "general", "vip", "gold", "constructor", ""}]

\* Request bodies of POST /register, likewise.
RegisterBodies ==
  [name : {"Ana"}, student_name : {"Leo"}, email : Emails]
  \cup {[name |-> "",    student_name |-> "Leo", email |-> "a@x"],
        [name |-> "Ana", student_name |-> "",    email |-> "a@x"],
        [name |-> "Ana", student_name |-> "Leo", email |-> ""]}

\* const TIERS = { early: ..., general: ..., vip: ... }
TIERS ==
  [early   |-> [label |-> "Early Bird", price |-> 65000],
   general |-> [label |-> "General",    price |-> 95000],
   vip     |-> [label |-> "VIP",        price |-> 180000]]

\* The properties every object literal inherits from Object.prototype
\* (constructor, toString, valueOf, hasOwnProperty, __proto__, ...): one of them.
ObjectPrototypeKeys == {"constructor"}

NaN == -1                       \* the number NaN
UNDEFINED == [label |-> "", price |-> 0]     \* the value undefined

\* const tierData = TIERS[tier]: an own property of TIERS, a property
\* inherited from Object.prototype (an object with no label and no price, so
\* that its price, undefined, becomes NaN in arithmetic), or undefined.
tierData(tier) ==
  IF tier \in DOMAIN TIERS THEN TIERS[tier]
  ELSE IF tier \in ObjectPrototypeKeys THEN [label |-> "undefined", price |-> NaN]
  ELSE UNDEFINED

\* Math.round(x / 100) for the non-negative x = price * 106
Round100(x) == (x + 50) \div 100

\* Mutant: the service fee is not added.
chargedAmountNoFee(price) == price

\* Math.round(tierData.price * 1.06)
chargedAmount(price) == IF price = NaN THEN NaN ELSE Round100(price * 106)

\* `Aniversario Caballeros — ${tierData.label}`
tierLabel(tier) ==
  CASE TIERS[tier].label = "Early Bird" -> "Aniversario Caballeros - Early Bird"
    [] TIERS[tier].label = "General"    -> "Aniversario Caballeros - General"
    [] TIERS[tier].label = "VIP"        -> "Aniversario Caballeros - VIP"

\* ----------------------------------------------------------- record store
\* A row of table registrations; NoRow stands for "no row" (data = null).
Row(id, name, student_name, email, payment_status, created_at) ==
  [id |-> id, name |-> name, student_name |-> student_name, email |-> email,
   payment_status |-> payment_status,
   checked_in |-> FALSE, checked_in_at |-> NULL, created_at |-> created_at]

NoRow == [id |-> NoId, name |-> "", student_name |-> "", email |-> "",
          payment_status |-> "null",
          checked_in |-> FALSE, checked_in_at |-> NULL, created_at |-> NULL]

\* .select(...).eq('id', id).single(): the row, or an error when the number
\* of matching rows is not one.
SelectSingle(table, id) ==
  LET hit == {r \in table : r.id = id}
  IN IF Cardinality(hit) = 1
       THEN [data |-> CHOOSE r \in hit : TRUE, error |-> FALSE]
       ELSE [data |-> NoRow, error |-> TRUE]

\* Mutant: the table has its primary key only, no unique index on email.
InsertRejectedKeyOnly(table, id, email) ==
  \E r \in table : r.id = id

\* PRIMARY KEY (id) and UNIQUE INDEX registrations_email_unique (email)
InsertRejected(table, id, email) ==
  \E r \in table : r.id = id \/ r.email = email

\* .insert([{...}]): created_at DEFAULT NOW(), checked_in DEFAULT FALSE.
\* NOW() is the position of the row in insertion order.
Insert(table, id, name, student_name, email, payment_status) ==
  IF InsertRejected(table, id, email)
    THEN table
    ELSE table \cup {Row(id, name, student_name, email, payment_status,
                         Cardinality(table) + 1)}

\* .update({ payment_status: 'paid' }).eq('id', id)
UpdatePaid(table, id) ==
  {IF r.id = id THEN [r EXCEPT !.payment_status = "paid"] ELSE r : r \in table}

\* Mutants of the check-in update: checked_in is not written; checked_in_at is
\* not written; the payment_status column is reused to mark the ticket used;
\* the update has no .eq('id', id) filter.
UpdateCheckedInAll(table, id, ts) ==
  {[r EXCEPT !.checked_in = TRUE, !.checked_in_at = ts] : r \in table}

UpdateCheckedInNoFlag(table, id, ts) ==
  {IF r.id = id THEN [r EXCEPT !.checked_in_at = ts] ELSE r : r \in table}

UpdateCheckedInNoStamp(table, id, ts) ==
  {IF r.id = id THEN [r EXCEPT !.checked_in = TRUE] ELSE r : r \in table}

UpdateCheckedInStatus(table, id, ts) ==
  {IF r.id = id THEN [r EXCEPT !.checked_in = TRUE, !.checked_in_at = ts,
                               !.payment_status = "checked_in"]
                ELSE r : r \in table}

\* .update({ checked_in: true, checked_in_at: ts }).eq('id', id)
UpdateCheckedIn(table, id, ts) ==
  {IF r.id = id THEN [r EXCEPT !.checked_in = TRUE, !.checked_in_at = ts]
                ELSE r : r \in table}

\* .select('*').order('created_at', { ascending: false })
RECURSIVE OrderNewestFirst(_)
OrderNewestFirst(table) ==
  IF table = {} THEN <<>>
  ELSE LET newest == CHOOSE r \in table :
                       \A q \in table : q.created_at <= r.created_at
       IN <<newest>> \o OrderNewestFirst(table \ {newest})

\* ------------------------------------------------------------------ state
VARIABLES
  registrations,  \* the rows of table registrations (Record Store)
  sessions,       \* the gateway's checkout sessions; a session's id is its index
  sent,           \* sent[id]: ticket emails the notifier accepted for identifier id
  nextId,         \* the next identifier uuidv4() returns
  clock,          \* the next reading of new Date()
  pc,             \* pc[p]: the await request p is suspended at
  req,            \* req[p]: the request p serves
  loc,            \* loc[p]: the handler's local variables
  resp,           \* resp[p]: the response p sent
  hist,           \* hist[p]: what request p has done so far (history)
  okVerify,       \* okVerify[id]: `success` responses of /verify for id (history)
  okConfirm,      \* session ids /confirm-payment answered 200 for (history)
  paidWrites,     \* paidWrites[id]: store writes that made id's row paid (history)
  undelivered     \* session ids whose ticket the notifier failed to take while
                  \* the row was paid (history)

vars == <<registrations, sessions, sent, nextId, clock, pc, req, loc, resp,
          hist, okVerify, okConfirm, paidWrites, undelivered>>

shared == <<registrations, sessions, sent, nextId, clock>>
ghosts == <<okVerify, okConfirm, paidWrites, undelivered>>

NoReq == [op |-> "", name |-> "", student_name |-> "", email |-> "", tier |-> "",
          session_id |-> NoSessionId, id |-> NoId, password |-> ""]

NoLoc == [registrationId |-> NoId, name |-> "", student_name |-> "", email |-> "",
          existing |-> NoRow, data |-> NoRow, now |-> NULL]

NoResp == [code |-> 0, error |-> "", url |-> NoSessionId, success |-> FALSE,
           alreadyConfirmed |-> FALSE, name |-> "", email |-> "", status |-> "",
           registration |-> NoRow, list |-> <<>>, id |-> NoId]

NoHist == [reads |-> 0, writes |-> 0, mails |-> 0, after |-> FALSE, faults |-> {}]

\* res.status(code).json({ error })
ErrorResp(code, error) == [NoResp EXCEPT !.code = code, !.error = error]

Init ==
  /\ registrations = {}
  /\ sessions = <<>>
  /\ sent = [i \in Ids |-> 0]
  /\ nextId = 1
  /\ clock = 1
  /\ pc = [p \in Procs |-> "idle"]
  /\ req = [p \in Procs |-> NoReq]
  /\ loc = [p \in Procs |-> NoLoc]
  /\ resp = [p \in Procs |-> NoResp]
  /\ hist = [p \in Procs |-> NoHist]
  /\ okVerify = [i \in Ids |-> 0]
  /\ okConfirm = {}
  /\ paidWrites = [i \in Ids |-> 0]
  /\ undelivered = {}

\* A request slot is free when it serves no request; "done" is a slot whose
\* response is on its way to the client.
Free(p) == pc[p] = "idle"
InFlight(p) == ~Free(p)

\* Request slots are interchangeable: a request arrives at the first free one.
FirstFree(p) == Free(p) /\ \A q \in Procs : q < p => InFlight(q)

\* The handler of p receives request r.
Receive(p, r) ==
  /\ FirstFree(p)
  /\ req' = [req EXCEPT ![p] = r]

\* History of the first step of request p: `after` tells whether an earlier
\* request for the same ticket or session had been answered with success;
\* reads and writes count the store calls that took effect in the step.
Started(p, after, reads, writes) ==
  hist' = [hist EXCEPT ![p] = [NoHist EXCEPT !.after = after, !.reads = reads,
                                            !.writes = writes]]

\* return res.status(...).json(...)
Respond(p, r) ==
  /\ \A q \in Procs : pc[q] # "done"
  /\ pc' = [pc EXCEPT ![p] = "done"]
  /\ resp' = [resp EXCEPT ![p] = r]
  /\ loc' = [loc EXCEPT ![p] = NoLoc]

\* The handler of p suspends at await `at` with locals l.
Await(p, at, l) ==
  /\ pc' = [pc EXCEPT ![p] = at]
  /\ loc' = [loc EXCEPT ![p] = l]
  /\ resp' = [resp EXCEPT ![p] = NoResp]

\* History: r store reads, w store writes, m notifier calls of request p took effect.
Did(p, r, w, m) ==
  hist' = [hist EXCEPT ![p].reads = @ + r, ![p].writes = @ + w, ![p].mails = @ + m]

\* History of a first step in which the call to dependency `what` (gateway,
\* store or notifier) fails.
StartedFailing(p, after, what) ==
  hist' = [hist EXCEPT ![p] = [NoHist EXCEPT !.after = after, !.faults = {what}]]

\* History: a call of request p to dependency `what` fails.
Failing(p, what) ==
  hist' = [hist EXCEPT ![p].faults = @ \cup {what}]

\* ------------------------------------------------- POST /create-checkout
\* Lines 34-79 but for the store, which they do not touch: validation,
\* uuidv4(), the session is created by the gateway, { url } is returned.  The
\* gateway rejects an amount that is not a number (the call throws, line 76)
\* and the identifier minted for the session is dropped.
CheckoutHandler(p, body) ==
  /\ Receive(p, [NoReq EXCEPT !.op = "create-checkout", !.name = body.name,
                              !.email = body.email, !.tier = body.tier])
  /\ Started(p, FALSE, 0, 0)
  /\ IF body.name = "" \/ body.email = "" \/ body.tier = ""
       THEN /\ Respond(p, ErrorResp(400, "Todos los campos son requeridos."))
            /\ UNCHANGED <<nextId, sessions>>
       ELSE IF tierData(body.tier) = UNDEFINED
         THEN /\ Respond(p, ErrorResp(400, "Tipo de acceso no valido."))
              /\ UNCHANGED <<nextId, sessions>>
       ELSE IF chargedAmount(tierData(body.tier).price) = NaN
         THEN /\ Respond(p, ErrorResp(500, "Error al crear el pago."))
              /\ UNCHANGED <<nextId, sessions>>
         ELSE /\ nextId <= MaxIds
              /\ nextId' = nextId + 1
              /\ sessions' = Append(sessions,
                   [payment_status |-> "unpaid",
                    customer_email |-> body.email,
                    unit_amount |-> chargedAmount(tierData(body.tier).price),
                    metadata |-> [registrationId |-> nextId,
                                  name |-> body.name,
                                  student_name |-> tierLabel(body.tier),
                                  email |-> body.email,
                                  tier |-> body.tier]])
              /\ Respond(p, [NoResp EXCEPT !.code = 200, !.url = Len(sessions) + 1])
  /\ UNCHANGED <<sent, clock, ghosts>>

\* Mutant of the handler: the registration is saved as pending before payment.
CreateCheckoutPending(p, body) ==
  /\ CheckoutHandler(p, body)
  /\ registrations' =
       IF pc'[p] = "done" /\ resp'[p].code = 200
         THEN Insert(registrations, nextId, body.name, tierLabel(body.tier),
                     body.email, "pending")
         ELSE registrations

\* Lines 34-74, the whole handler: the session is created first and nothing is
\* saved before the payment is confirmed.
CreateCheckout(p, body) ==
  /\ CheckoutHandler(p, body)
  /\ UNCHANGED registrations

\* Lines 46-54 and 76-79: stripe.checkout.sessions.create throws; no session
\* exists and the identifier minted for it is dropped.
CreateCheckoutFail(p, body) ==
  /\ body.name # "" /\ body.email # "" /\ body.tier \in DOMAIN TIERS
  /\ Receive(p, [NoReq EXCEPT !.op = "create-checkout", !.name = body.name,
                              !.email = body.email, !.tier = body.tier])
  /\ StartedFailing(p, FALSE, "gateway")
  /\ Respond(p, ErrorResp(500, "Error al crear el pago."))
  /\ UNCHANGED <<shared, ghosts>>

\* The customer pays on the hosted checkout page the url leads to.
GatewayPay(s) ==
  /\ s \in 1..Len(sessions)
  /\ sessions[s].payment_status = "unpaid"
  /\ sessions' = [sessions EXCEPT ![s].payment_status = "paid"]
  /\ UNCHANGED <<registrations, sent, nextId, clock, pc, req, loc, resp, hist, ghosts>>

\* ------------------------------------------------- POST /confirm-payment
\* Mutant: the status of the session is not checked.
PaymentCompletedAny(session) == TRUE

\* Line 90: session.payment_status !== 'paid' is the failure.
PaymentCompleted(session) == session.payment_status = "paid"

\* Line 103: existing?.payment_status === 'paid'
AlreadyConfirmed(existing) == existing # NoRow /\ existing.payment_status = "paid"

\* Lines 84-101: session_id is required; stripe.checkout.sessions.retrieve
\* resolves (it throws for an unknown session); payment_status is checked; the
\* lookup is issued.
ConfirmRetrieve(p, session_id) ==
  /\ Receive(p, [NoReq EXCEPT !.op = "confirm-payment", !.session_id = session_id])
  /\ Started(p, session_id \in okConfirm, 0, 0)
  /\ IF session_id = NoSessionId
       THEN Respond(p, ErrorResp(400, "Session ID requerido."))
       ELSE IF session_id \notin 1..Len(sessions)
         THEN Respond(p, ErrorResp(500, "Error al confirmar el pago."))
         ELSE LET session == sessions[session_id] IN
           IF ~PaymentCompleted(session)
             THEN Respond(p, ErrorResp(400, "Pago no completado."))
             ELSE Await(p, "cp_select",
                        [NoLoc EXCEPT !.registrationId = session.metadata.registrationId,
                                      !.name = session.metadata.name,
                                      !.student_name = session.metadata.student_name,
                                      !.email = session.metadata.email])
  /\ UNCHANGED <<shared, ghosts>>

\* Lines 89 and 137-140: stripe.checkout.sessions.retrieve throws for a session
\* the gateway holds.
ConfirmRetrieveFail(p, session_id) ==
  /\ session_id \in 1..Len(sessions)
  /\ Receive(p, [NoReq EXCEPT !.op = "confirm-payment", !.session_id = session_id])
  /\ StartedFailing(p, session_id \in okConfirm, "gateway")
  /\ Respond(p, ErrorResp(500, "Error al confirmar el pago."))
  /\ UNCHANGED <<shared, ghosts>>

\* Lines 97-118: the lookup resolves; an already paid row ends the request;
\* otherwise the update or the insert is issued.
ConfirmSelect(p) ==
  /\ pc[p] = "cp_select"
  /\ LET existing == SelectSingle(registrations, loc[p].registrationId).data IN
       IF AlreadyConfirmed(existing)
         THEN /\ Respond(p, [NoResp EXCEPT !.code = 200, !.success = TRUE,
                                           !.alreadyConfirmed = TRUE,
                                           !.name = loc[p].name,
                                           !.email = loc[p].email])
              /\ okConfirm' = okConfirm \cup {req[p].session_id}
         ELSE /\ Await(p, "cp_write", [loc[p] EXCEPT !.existing = existing])
              /\ UNCHANGED okConfirm
  /\ Did(p, 1, 0, 0)
  /\ UNCHANGED <<shared, req, okVerify, paidWrites, undelivered>>

\* The rows of table after the write of lines 107-118 with locals l.
ConfirmWriteResult(table, l) ==
  IF l.existing # NoRow
    THEN UpdatePaid(table, l.registrationId)
    ELSE Insert(table, l.registrationId, l.name, l.student_name, l.email, "paid")

\* id's row is paid in table
IsPaid(table, id) == \E r \in table : r.id = id /\ r.payment_status = "paid"

\* Lines 107-128: the update or insert resolves (its error is not read); the
\* QR code is encoded; the email is handed to the notifier.
ConfirmWrite(p) ==
  /\ pc[p] = "cp_write"
  /\ registrations' = ConfirmWriteResult(registrations, loc[p])
  /\ paidWrites' = [paidWrites EXCEPT ![loc[p].registrationId] =
        IF ~IsPaid(registrations, loc[p].registrationId)
           /\ IsPaid(registrations', loc[p].registrationId) THEN @ + 1 ELSE @]
  /\ pc' = [pc EXCEPT ![p] = "cp_send"]
  /\ Did(p, 0, 1, 0)
  /\ UNCHANGED <<sessions, sent, nextId, clock, req, loc, resp, okVerify, okConfirm,
                 undelivered>>

\* Lines 128-135: resend.emails.send resolves; success is returned.
ConfirmSend(p) ==
  /\ pc[p] = "cp_send"
  /\ sent[loc[p].registrationId] < MaxSent
  /\ sent' = [sent EXCEPT ![loc[p].registrationId] = @ + 1]
  /\ Respond(p, [NoResp EXCEPT !.code = 200, !.success = TRUE,
                               !.name = loc[p].name, !.email = loc[p].email])
  /\ okConfirm' = okConfirm \cup {req[p].session_id}
  /\ Did(p, 0, 0, 1)
  /\ UNCHANGED <<registrations, sessions, nextId, clock, req, okVerify, paidWrites,
                 undelivered>>

\* Lines 97-101: the lookup fails; the store returns { data: null, error },
\* the error is not read and the handler goes on to the insert.
ConfirmSelectFail(p) ==
  /\ pc[p] = "cp_select"
  /\ Await(p, "cp_write", [loc[p] EXCEPT !.existing = NoRow])
  /\ Failing(p, "store")
  /\ UNCHANGED <<shared, req, ghosts>>

\* Lines 107-118: the update or insert fails; the store returns { error },
\* which is not read, and the handler goes on to the notifier.
ConfirmWriteFail(p) ==
  /\ pc[p] = "cp_write"
  /\ pc' = [pc EXCEPT ![p] = "cp_send"]
  /\ Failing(p, "store")
  /\ UNCHANGED <<shared, req, loc, resp, ghosts>>

\* The session of request p is one whose ticket the notifier did not take
\* although the row of its id is paid.
Undelivered(p) ==
  IF IsPaid(registrations, loc[p].registrationId)
    THEN undelivered \cup {req[p].session_id}
    ELSE undelivered

\* Lines 128-135: resend.emails.send resolves to { error }; the result is not
\* read and success is returned.
ConfirmSendFail(p) ==
  /\ pc[p] = "cp_send"
  /\ Respond(p, [NoResp EXCEPT !.code = 200, !.success = TRUE,
                               !.name = loc[p].name, !.email = loc[p].email])
  /\ okConfirm' = okConfirm \cup {req[p].session_id}
  /\ undelivered' = Undelivered(p)
  /\ Failing(p, "notifier")
  /\ UNCHANGED <<shared, req, okVerify, paidWrites>>

\* Mutant: the catch undoes the write when the notifier throws.
ConfirmSendThrowRollback(p) ==
  /\ pc[p] = "cp_send"
  /\ registrations' = {r \in registrations : r.id # loc[p].registrationId}
  /\ Respond(p, ErrorResp(500, "Error al confirmar el pago."))
  /\ undelivered' = Undelivered(p)
  /\ Failing(p, "notifier")
  /\ UNCHANGED <<sessions, sent, nextId, clock, req, okVerify, okConfirm, paidWrites>>

\* Lines 128 and 137-140: resend.emails.send throws; the catch answers 500.
ConfirmSendThrow(p) ==
  /\ pc[p] = "cp_send"
  /\ Respond(p, ErrorResp(500, "Error al confirmar el pago."))
  /\ undelivered' = Undelivered(p)
  /\ Failing(p, "notifier")
  /\ UNCHANGED <<shared, req, okVerify, okConfirm, paidWrites>>

\* ---------------------------------------------------------- POST /verify
\* Mutant: any non-empty password is accepted.
AuthorizedAnyPassword(password) == password # ""

\* The credential check of lines 208 and 226.
Authorized(password) == password = ADMIN_PASSWORD

\* Mutant: the result of the lookup is not checked.
NotFoundNever(r) == FALSE

\* Line 239: error || !data
NotFound(r) == r.error \/ r.data = NoRow

\* Line 243: data.checked_in
AlreadyCheckedIn(data) == data.checked_in

\* Lines 224-255: credential, then id; the lookup resolves; not_found,
\* already_checked_in, or the update is issued with the time read now.
VerifySelect(p, id, password) ==
  LET after == id \in Ids /\ okVerify[id] > 0 IN
  /\ Receive(p, [NoReq EXCEPT !.op = "verify", !.id = id, !.password = password])
  /\ IF ~Authorized(password)
       THEN /\ Respond(p, ErrorResp(401, "No autorizado."))
            /\ Started(p, after, 0, 0)
            /\ UNCHANGED clock
       ELSE IF id = NoId
         THEN /\ Respond(p, ErrorResp(400, "ID requerido."))
              /\ Started(p, after, 0, 0)
              /\ UNCHANGED clock
         ELSE LET r == SelectSingle(registrations, id) IN
           /\ Started(p, after, 1, 0)
           /\ IF NotFound(r)
                THEN /\ Respond(p, [NoResp EXCEPT !.code = 404, !.status = "not_found"])
                     /\ UNCHANGED clock
                ELSE IF AlreadyCheckedIn(r.data)
                  THEN /\ Respond(p, [NoResp EXCEPT !.code = 200,
                                                    !.status = "already_checked_in",
                                                    !.registration = r.data])
                       /\ UNCHANGED clock
                  ELSE /\ clock <= MaxClock
                       /\ clock' = clock + 1
                       /\ Await(p, "v_update",
                                [NoLoc EXCEPT !.data = r.data, !.now = clock])
  /\ UNCHANGED <<registrations, sessions, sent, nextId, ghosts>>

\* The rows of table after the update of lines 252-255.
VerifyUpdateResult(table, id, now) == UpdateCheckedIn(table, id, now)

\* Lines 252-261: the update resolves (its error is not read); success is
\* returned with the row as it was read.
VerifyUpdate(p) ==
  /\ pc[p] = "v_update"
  /\ registrations' = VerifyUpdateResult(registrations, req[p].id, loc[p].now)
  /\ Respond(p, [NoResp EXCEPT !.code = 200, !.status = "success",
                               !.registration = loc[p].data])
  /\ okVerify' = [okVerify EXCEPT ![req[p].id] = @ + 1]
  /\ Did(p, 0, 1, 0)
  /\ UNCHANGED <<sessions, sent, nextId, clock, req, okConfirm, paidWrites,
                 undelivered>>

\* Lines 233-241: the lookup fails; error || !data answers not_found.
VerifySelectFail(p, id, password) ==
  /\ Authorized(password) /\ id # NoId
  /\ Receive(p, [NoReq EXCEPT !.op = "verify", !.id = id, !.password = password])
  /\ StartedFailing(p, okVerify[id] > 0, "store")
  /\ Respond(p, [NoResp EXCEPT !.code = 404, !.status = "not_found"])
  /\ UNCHANGED <<shared, ghosts>>

\* Lines 252-261: the update fails; the store returns { error }, which is not
\* read, and success is returned with the row as it was read.
VerifyUpdateFail(p) ==
  /\ pc[p] = "v_update"
  /\ Respond(p, [NoResp EXCEPT !.code = 200, !.status = "success",
                               !.registration = loc[p].data])
  /\ okVerify' = [okVerify EXCEPT ![req[p].id] = @ + 1]
  /\ Failing(p, "store")
  /\ UNCHANGED <<shared, req, okConfirm, paidWrites, undelivered>>

\* ------------------------------------------- GET /admin/registrations
\* Lines 206-220, the whole handler: credential; the listing resolves and is
\* returned, newest first.
ListRegistrations(p, password) ==
  /\ Receive(p, [NoReq EXCEPT !.op = "list", !.password = password])
  /\ IF ~Authorized(password)
       THEN /\ Respond(p, ErrorResp(401, "No autorizado."))
            /\ Started(p, FALSE, 0, 0)
       ELSE /\ Respond(p, [NoResp EXCEPT !.code = 200,
                                         !.list = OrderNewestFirst(registrations)])
            /\ Started(p, FALSE, 1, 0)
  /\ UNCHANGED <<shared, ghosts>>

\* Lines 212-217: the listing fails; error answers 500.
ListRegistrationsFail(p, password) ==
  /\ Authorized(password)
  /\ Receive(p, [NoReq EXCEPT !.op = "list", !.password = password])
  /\ StartedFailing(p, FALSE, "store")
  /\ Respond(p, ErrorResp(500, "Error al obtener registros."))
  /\ UNCHANGED <<shared, ghosts>>

\* -------------------------------------------------------- POST /register
\* Mutant of the handler: dbError is not read and the email is sent whether
\* or not the row was inserted.
RegisterInsertUnchecked(p, body) ==
  /\ Receive(p, [NoReq EXCEPT !.op = "register", !.name = body.name,
                 !.student_name = body.student_name, !.email = body.email])
  /\ IF body.name = "" \/ body.student_name = "" \/ body.email = ""
       THEN /\ Respond(p, ErrorResp(400, "Todos los campos son requeridos."))
            /\ Started(p, FALSE, 0, 0)
            /\ UNCHANGED <<nextId, registrations>>
       ELSE /\ nextId <= MaxIds
            /\ nextId' = nextId + 1
            /\ Started(p, FALSE, 0, 1)
            /\ registrations' = Insert(registrations, nextId, body.name,
                                       body.student_name, body.email, "null")
            /\ Await(p, "rg_send", [NoLoc EXCEPT !.registrationId = nextId])
  /\ UNCHANGED <<sessions, sent, clock, ghosts>>

\* Lines 89-137: validation, uuidv4(); the insert resolves; dbError ends the
\* request; otherwise the QR code is encoded and the email is handed to the
\* notifier.
RegisterInsert(p, body) ==
  /\ Receive(p, [NoReq EXCEPT !.op = "register", !.name = body.name,
                 !.student_name = body.student_name, !.email = body.email])
  /\ IF body.name = "" \/ body.student_name = "" \/ body.email = ""
       THEN /\ Respond(p, ErrorResp(400, "Todos los campos son requeridos."))
            /\ Started(p, FALSE, 0, 0)
            /\ UNCHANGED <<nextId, registrations>>
       ELSE /\ nextId <= MaxIds
            /\ nextId' = nextId + 1
            /\ Started(p, FALSE, 0, 1)
            /\ IF InsertRejected(registrations, nextId, body.email)
                 THEN /\ Respond(p, ErrorResp(500, "Error al guardar el registro."))
                      /\ UNCHANGED registrations
                 ELSE /\ registrations' = Insert(registrations, nextId, body.name,
                                                 body.student_name, body.email, "null")
                      /\ Await(p, "rg_send", [NoLoc EXCEPT !.registrationId = nextId])
  /\ UNCHANGED <<sessions, sent, clock, ghosts>>

\* Lines 125-145: resend.emails.send resolves; { success, id } is returned.
RegisterSend(p) ==
  /\ pc[p] = "rg_send"
  /\ sent[loc[p].registrationId] < MaxSent
  /\ sent' = [sent EXCEPT ![loc[p].registrationId] = @ + 1]
  /\ Respond(p, [NoResp EXCEPT !.code = 200, !.success = TRUE,
                               !.id = loc[p].registrationId])
  /\ Did(p, 0, 0, 1)
  /\ UNCHANGED <<registrations, sessions, nextId, clock, req, ghosts>>

\* Lines 98-108: the insert fails for a reason other than a constraint of the
\* table; dbError ends the request, the identifier minted for it is dropped.
RegisterInsertFail(p, body) ==
  /\ body.name # "" /\ body.student_name # "" /\ body.email # ""
  /\ Receive(p, [NoReq EXCEPT !.op = "register", !.name = body.name,
                 !.student_name = body.student_name, !.email = body.email])
  /\ StartedFailing(p, FALSE, "store")
  /\ Respond(p, ErrorResp(500, "Error al guardar el registro."))
  /\ UNCHANGED <<shared, ghosts>>

\* Lines 125-143: resend.emails.send resolves to { error }; emailError ends
\* the request, the row stays.
RegisterSendFail(p) ==
  /\ pc[p] = "rg_send"
  /\ Respond(p, ErrorResp(500, "Registro guardado, pero error al enviar correo."))
  /\ Failing(p, "notifier")
  /\ UNCHANGED <<shared, req, ghosts>>

\* Lines 125 and 147-150: resend.emails.send throws; the catch answers 500.
RegisterSendThrow(p) ==
  /\ pc[p] = "rg_send"
  /\ Respond(p, ErrorResp(500, "Error inesperado. Intenta de nuevo."))
  /\ Failing(p, "notifier")
  /\ UNCHANGED <<shared, req, ghosts>>

\* The response of p has left the server; the slot is free again.
Deliver(p) ==
  /\ pc[p] = "done"
  /\ pc' = [pc EXCEPT ![p] = "idle"]
  /\ req' = [req EXCEPT ![p] = NoReq]
  /\ resp' = [resp EXCEPT ![p] = NoResp]
  /\ hist' = [hist EXCEPT ![p] = NoHist]
  /\ UNCHANGED <<shared, loc, ghosts>>

\* ---------------------------------------------------------- specification
\* A request of the paid flow or of the door arrives and runs up to its
\* second await.
ArrivePaid ==
  \E p \in Procs :
    \/ \E body \in CheckoutBodies : CreateCheckout(p, body)
    \/ \E session_id \in {NoSessionId} \cup Ids : ConfirmRetrieve(p, session_id)
    \/ \E id \in {NoId} \cup Ids, password \in Passwords : VerifySelect(p, id, password)
    \/ \E password \in Passwords : ListRegistrations(p, password)

\* A request of the no-payment flow arrives.
ArriveRegister ==
  \E p \in Procs : \E body \in RegisterBodies : RegisterInsert(p, body)

\* An awaited call of a request in flight resolves, or a response leaves.
ResolvePaid ==
  \E p \in Procs :
    \/ ConfirmSelect(p)
    \/ ConfirmWrite(p)
    \/ ConfirmSend(p)
    \/ VerifyUpdate(p)
    \/ Deliver(p)

ResolveRegister == \E p \in Procs : RegisterSend(p)

Pay == \E s \in Ids : GatewayPay(s)

\* Requests served one after the other arrive only when no request is in flight.
Quiet == \A p \in Procs : Free(p)

\* All handlers, requests interleaving at their awaits.
Next == ArrivePaid \/ ArriveRegister \/ ResolvePaid \/ ResolveRegister \/ Pay

Spec == Init /\ [][Next]_vars

\* All handlers, one request at a time.
NextSeq ==
  \/ Quiet /\ (ArrivePaid \/ ArriveRegister)
  \/ ResolvePaid \/ ResolveRegister \/ Pay

SpecSeq == Init /\ [][NextSeq]_vars

\* The handlers of server.js only (no POST /register), interleaving.
NextPaid == ArrivePaid \/ ResolvePaid \/ Pay

SpecPaid == Init /\ [][NextPaid]_vars

\* The handlers of server.js only, one request at a time.
NextPaidSeq == (Quiet /\ ArrivePaid) \/ ResolvePaid \/ Pay

SpecPaidSeq == Init /\ [][NextPaidSeq]_vars

\* The gateway may fail: a call to it throws.
ArriveFail ==
  \E p \in Procs :
    \/ \E body \in CheckoutBodies : CreateCheckoutFail(p, body)
    \/ \E session_id \in Ids : ConfirmRetrieveFail(p, session_id)

NextFault == Next \/ ArriveFail

SpecFault == Init /\ [][NextFault]_vars

\* POST /create-checkout alone, with every request body.
NextCheckout ==
  \/ \E p \in Procs : \E body \in AllCheckoutBodies : CreateCheckout(p, body)
  \/ \E p \in Procs : Deliver(p)

SpecCheckout == Init /\ [][NextCheckout]_vars

\* The store may fail: a call to it returns an error.  A request arrives whose
\* first store call fails, or a store call of a request in flight fails.
ArriveStoreFail ==
  \E p \in Procs :
    \/ \E id \in Ids : VerifySelectFail(p, id, ADMIN_PASSWORD)
    \/ ListRegistrationsFail(p, ADMIN_PASSWORD)

ResolveStoreFail ==
  \E p \in Procs :
    \/ ConfirmSelectFail(p)
    \/ ConfirmWriteFail(p)
    \/ VerifyUpdateFail(p)

\* The notifier may fail: a call to it returns an error, or throws.
NotifierFailPaid ==
  \E p \in Procs : ConfirmSendFail(p) \/ ConfirmSendThrow(p)

\* The handlers of server.js, interleaving, with the notifier failing at will.
NextPaidNotifierDown == NextPaid \/ NotifierFailPaid

SpecPaidNotifierDown == Init /\ [][NextPaidNotifierDown]_vars

\* The handlers of server.js, one request at a time, with every dependency
\* failing at will.
NextPaidSeqDown ==
  \/ Quiet /\ (ArrivePaid \/ ArriveFail \/ ArriveStoreFail)
  \/ ResolvePaid \/ Pay \/ ResolveStoreFail \/ NotifierFailPaid

SpecPaidSeqDown == Init /\ [][NextPaidSeqDown]_vars

\* POST /register with the store and the notifier failing at will.
RegisterFail ==
  \E p \in Procs :
    \/ \E body \in RegisterBodies : RegisterInsertFail(p, body)
    \/ RegisterSendFail(p)
    \/ RegisterSendThrow(p)

NextRegisterDown ==
  ArriveRegister \/ ResolveRegister \/ RegisterFail \/ (\E p \in Procs : Deliver(p))

SpecRegisterDown == Init /\ [][NextRegisterDown]_vars

\* ------------------------------------------------------------- properties
\* The row of id in table, NoRow when there is none.
RowOf(table, id) == SelectSingle(table, id).data

\* Request p arrives in this step.
Arrives(p) == pc[p] = "idle" /\ pc'[p] # "idle"

\* p has answered a request of handler op.
Answered(p, op) == pc[p] = "done" /\ req[p].op = op

\* C1: concurrent /verify calls with the correct credential on the same known,
\* not yet checked-in id yield exactly one `success`; all others get
\* `already_checked_in`: no id is ever answered `success` twice.
C1_OneSuccessPerId == \A id \in Ids : okVerify[id] <= 1

\* C2: of two concurrent /confirm-payment calls on the same paid session at
\* most one takes the first-confirmation path (write, then notifier).
C2_OneFirstConfirmation ==
  \A p, q \in Procs :
    (/\ p # q
     /\ req[p].op = "confirm-payment" /\ req[q].op = "confirm-payment"
     /\ req[p].session_id = req[q].session_id)
    => ~(pc[p] \in {"cp_write", "cp_send"} /\ pc[q] \in {"cp_write", "cp_send"})

\* C3: /confirm-payment called twice in sequence with the same paid session:
\* the first call makes the row paid with one store write and dispatches one
\* email; the second call, started after the first returned, answers
\* alreadyConfirmed and performs no store write and no dispatch.
C3_ConfirmTwice ==
  \A p \in Procs :
    (Answered(p, "confirm-payment") /\ resp[p].code = 200) =>
      LET id == sessions[req[p].session_id].metadata.registrationId IN
      IF hist[p].after
        THEN resp[p].alreadyConfirmed /\ hist[p].writes = 0 /\ hist[p].mails = 0
        ELSE /\ ~resp[p].alreadyConfirmed
             /\ hist[p].writes = 1 /\ hist[p].mails = 1
             /\ paidWrites[id] = 1 /\ IsPaid(registrations, id)

\* What a /verify request with the correct credential has answered, in a run
\* of requests served one after the other.
C4_Answer ==
  \A p \in Procs :
    (Answered(p, "verify") /\ Authorized(req[p].password) /\ req[p].id # NoId) =>
      LET row == RowOf(registrations, req[p].id) IN
      /\ okVerify[req[p].id] <= 1
      /\ resp[p].status = "success" =>
           /\ ~hist[p].after /\ hist[p].writes = 1
           /\ ~resp[p].registration.checked_in
           /\ row.checked_in /\ row.checked_in_at # NULL
      /\ hist[p].after =>
           /\ resp[p].status = "already_checked_in" /\ hist[p].writes = 0
           /\ row.checked_in /\ row.checked_in_at # NULL
           /\ resp[p].registration = row

\* A /verify request on a row not yet checked in goes on to the update, the
\* update checks the row in and answers `success`, and no step changes the
\* checked_in_at of a row that is checked in.
C4_Step ==
  /\ \A p \in Procs :
       /\ (/\ Arrives(p) /\ req'[p].op = "verify" /\ Authorized(req'[p].password)
           /\ \E r \in registrations : r.id = req'[p].id /\ ~r.checked_in)
          => pc'[p] = "v_update"
       /\ (pc[p] = "v_update" /\ pc'[p] # "v_update")
          => /\ resp'[p].status = "success"
             /\ RowOf(registrations', req[p].id).checked_in
             /\ RowOf(registrations', req[p].id).checked_in_at = loc[p].now
  /\ \A r \in registrations :
       r.checked_in => /\ RowOf(registrations', r.id).checked_in
                       /\ RowOf(registrations', r.id).checked_in_at = r.checked_in_at

\* C4: sequential /verify calls with the correct credential on a known id: the
\* first call on a not yet checked-in row sets checked_in and checked_in_at and
\* answers `success`; every later call answers `already_checked_in`, writes
\* nothing, and checked_in_at keeps the value the first call set.
C4_SequentialCheckin == []C4_Answer /\ [][C4_Step]_vars

C4_Witness ==
  \E p \in Procs :
    /\ Answered(p, "verify") /\ hist[p].after
    /\ resp[p].status = "already_checked_in"
    /\ resp[p].registration.checked_in_at # NULL

\* C5: /create-checkout never writes to the store: whatever the request body,
\* and whether the gateway creates the session or fails, the rows of the store
\* are the same after the call.
C5_CheckoutLeavesStore ==
  [][\A p \in Procs :
       (Arrives(p) /\ req'[p].op = "create-checkout")
       => registrations' = registrations /\ hist'[p].writes = 0]_vars

C5_Witness ==
  \E p \in Procs :
    /\ Answered(p, "create-checkout") /\ resp[p].code = 500
    /\ Len(sessions) > 0 /\ registrations # {}

\* C6: /confirm-payment on a session the gateway does not report as paid
\* answers 400 "Pago no completado." without any store call or notifier call;
\* the store is unchanged.
C6_UnpaidSessionRejected ==
  [][\A p \in Procs :
       (/\ Arrives(p) /\ req'[p].op = "confirm-payment"
        /\ req'[p].session_id \in 1..Len(sessions)
        /\ sessions[req'[p].session_id].payment_status # "paid")
       => /\ pc'[p] = "done"
          /\ resp'[p] = ErrorResp(400, "Pago no completado.")
          /\ hist'[p].reads = 0 /\ hist'[p].writes = 0 /\ hist'[p].mails = 0
          /\ registrations' = registrations /\ sent' = sent]_vars

C6_Witness ==
  \E p \in Procs :
    /\ Answered(p, "confirm-payment")
    /\ resp[p] = ErrorResp(400, "Pago no completado.")
    /\ sessions[req[p].session_id].payment_status = "unpaid"
    /\ registrations # {}

\* C7: /verify with the correct credential on an id no row of the store has
\* answers 404 `not_found` and leaves the store unchanged.
C7_UnknownIdNotFound ==
  [][\A p \in Procs :
       (/\ Arrives(p) /\ req'[p].op = "verify" /\ req'[p].password = ADMIN_PASSWORD
        /\ req'[p].id # NoId
        /\ ~\E r \in registrations : r.id = req'[p].id)
       => /\ pc'[p] = "done"
          /\ resp'[p] = [NoResp EXCEPT !.code = 404, !.status = "not_found"]
          /\ hist'[p].writes = 0
          /\ registrations' = registrations]_vars

C7_Witness ==
  \E p \in Procs :
    /\ Answered(p, "verify") /\ resp[p].status = "not_found"
    /\ RowOf(registrations, req[p].id) = NoRow
    /\ registrations # {}

\* C8: /verify and /admin/registrations with a credential that is not the
\* admin credential answer 401 "No autorizado.", with no store read or write;
\* the answer is this one value whatever the store holds.
C8_Unauthorized ==
  \A p \in Procs :
    (/\ pc[p] # "idle" /\ req[p].op \in {"verify", "list"}
     /\ req[p].password # ADMIN_PASSWORD)
    => /\ pc[p] = "done"
       /\ resp[p] = ErrorResp(401, "No autorizado.")
       /\ hist[p].reads = 0 /\ hist[p].writes = 0

C8_Witness ==
  \E p \in Procs :
    /\ Answered(p, "verify") /\ req[p].password # ADMIN_PASSWORD
    /\ resp[p].code = 401
    /\ RowOf(registrations, req[p].id).checked_in
    /\ \E i \in Ids : RowOf(registrations, i) = NoRow

\* C9: in every row of the store checked_in is true exactly when checked_in_at
\* is not null.
C9_CheckedInIffStamped ==
  \A r \in registrations : r.checked_in <=> r.checked_in_at # NULL

C9_Witness ==
  \E r, q \in registrations : r.checked_in /\ ~q.checked_in

\* C10: payment_status = 'paid' is monotonic and rows are never deleted: a row
\* that is paid is there and paid after every step.
C10_PaidMonotonic ==
  [][\A r \in registrations :
       r.payment_status = "paid" => IsPaid(registrations', r.id)]_vars

C10_Witness ==
  \E r \in registrations : r.payment_status = "paid" /\ r.checked_in

\* No two rows of the store have the same email.
C11_Unique ==
  \A r, q \in registrations : r.email = q.email => r = q

\* An insert whose email is the email of a row with another id adds no row: the
\* insert of /confirm-payment, and the insert of /register.
C11_Step ==
  \A p \in Procs :
    /\ (/\ pc[p] = "cp_write" /\ pc'[p] # "cp_write" /\ loc[p].existing = NoRow
        /\ \E r \in registrations :
             r.email = loc[p].email /\ r.id # loc[p].registrationId)
       => registrations' = registrations
    /\ (/\ Arrives(p) /\ req'[p].op = "register" /\ req'[p].email # ""
        /\ \E r \in registrations : r.email = req'[p].email)
       => registrations' = registrations

\* C11: in every reachable state of the store no two rows have the same email;
\* an insert (of /confirm-payment or of the legacy /register) whose email is
\* that of a row with a different id is rejected and adds no row.
C11_EmailUnique == []C11_Unique /\ [][C11_Step]_vars

C11_Witness ==
  \E p \in Procs :
       /\ pc[p] = "cp_send"
       /\ RowOf(registrations, loc[p].registrationId) = NoRow
       /\ \E r \in registrations : r.email = loc[p].email

\* C12: every ticket /confirm-payment hands to the notifier encodes an id for
\* which the store holds exactly one row, and that row is paid, at the moment
\* of dispatch, also when the insert was rejected.
C12_TicketHasPaidRow ==
  [][\A p \in Procs :
       (pc[p] = "cp_send" /\ sent' # sent)
       => /\ Cardinality({r \in registrations : r.id = loc[p].registrationId}) = 1
          /\ IsPaid(registrations, loc[p].registrationId)]_vars

\* The row of a session whose ticket the notifier failed to take is paid.
C13_Kept ==
  \A s \in undelivered : IsPaid(registrations, sessions[s].metadata.registrationId)

\* The failure of the notifier leaves a paid row paid, and a /confirm-payment
\* that arrives later for the session finds the row and answers
\* alreadyConfirmed without writing.
C13_Step ==
  \A p \in Procs :
    /\ (/\ pc[p] = "cp_send" /\ "notifier" \in hist'[p].faults
        /\ IsPaid(registrations, loc[p].registrationId))
       => /\ registrations' = registrations
          /\ req[p].session_id \in undelivered'
    /\ (/\ Arrives(p) /\ req'[p].op = "confirm-payment"
        /\ req'[p].session_id \in undelivered)
       => pc'[p] = "cp_select"
    /\ (/\ pc[p] = "cp_select" /\ pc'[p] # "cp_select"
        /\ req[p].session_id \in undelivered)
       => /\ pc'[p] = "done"
          /\ resp'[p].code = 200 /\ resp'[p].success /\ resp'[p].alreadyConfirmed
          /\ registrations' = registrations

\* C13: when the notifier fails in /confirm-payment after the write that made
\* the row paid, the row is not rolled back: it is there and paid after the
\* call, and a later /confirm-payment for the session answers
\* alreadyConfirmed = true.
C13_NoRollback == []C13_Kept /\ [][C13_Step]_vars

C13_Witness ==
  \E p \in Procs :
    /\ Answered(p, "confirm-payment") /\ resp[p].alreadyConfirmed
    /\ req[p].session_id \in undelivered
    /\ sent[sessions[req[p].session_id].metadata.registrationId] = 0

\* C14: when the notifier fails in /confirm-payment after a successful store
\* write, the caller gets an error that is neither success nor the answer to a
\* gateway or store failure; success = true is never returned for a ticket
\* that was not delivered.
C14_NotifierFailureReported ==
  \A p \in Procs :
    (/\ Answered(p, "confirm-payment")
     /\ hist[p].faults = {"notifier"} /\ hist[p].writes = 1
     /\ IsPaid(registrations, sessions[req[p].session_id].metadata.registrationId))
    => /\ ~resp[p].success
       /\ resp[p].code >= 400
       /\ resp[p] # ErrorResp(500, "Error al confirmar el pago.")

\* C15: when a store call of /confirm-payment or /verify fails, the caller
\* gets a failure and never a success: /verify answers `success` only if the
\* row is checked in afterwards, /confirm-payment answers success = true only
\* if the row is paid afterwards.
C15_StoreFailureReported ==
  \A p \in Procs :
    /\ (Answered(p, "verify") /\ resp[p].status = "success")
       => RowOf(registrations, req[p].id).checked_in
    /\ (Answered(p, "confirm-payment") /\ resp[p].success)
       => IsPaid(registrations, sessions[req[p].session_id].metadata.registrationId)
    /\ (/\ pc[p] = "done" /\ req[p].op \in {"verify", "confirm-payment"}
        /\ "store" \in hist[p].faults)
       => /\ resp[p].code >= 400
          /\ ~resp[p].success /\ resp[p].status # "success"

\* C16: /create-checkout with name, email or tier missing or empty, or with a
\* tier that is not a key of the price table, answers 400 and has no side
\* effect: no gateway session is created, no identifier is minted, the store
\* is unchanged.
C16_InvalidCheckoutRejected ==
  [][\A p \in Procs :
       (/\ Arrives(p) /\ req'[p].op = "create-checkout"
        /\ \/ req'[p].name = "" \/ req'[p].email = "" \/ req'[p].tier = ""
           \/ req'[p].tier \notin {"early", "general", "vip"})
       => /\ pc'[p] = "done"
          /\ resp'[p].code = 400 /\ resp'[p].error # ""
          /\ resp'[p].url = NoSessionId
          /\ sessions' = sessions /\ nextId' = nextId
          /\ registrations' = registrations /\ sent' = sent]_vars

\* C17: for every tier of the price table the amount /create-checkout passes
\* to the gateway is the table price plus 6%, rounded to the nearest minor
\* unit (early 68900, general 100700, vip 190800); it depends on the tier only,
\* whatever the other fields of the request body are.
C17_ChargedAmount ==
  \A s \in 1..Len(sessions) :
    LET tier == sessions[s].metadata.tier
        amount == sessions[s].unit_amount
    IN /\ tier \in {"early", "general", "vip"}
       /\ tier = "early" => TIERS[tier].price = 65000 /\ amount = 68900
       /\ tier = "general" => TIERS[tier].price = 95000 /\ amount = 100700
       /\ tier = "vip" => TIERS[tier].price = 180000 /\ amount = 190800
       /\ 100 * amount - 106 * TIERS[tier].price \in -49..50
       /\ \A t \in 1..Len(sessions) :
            sessions[t].metadata.tier = tier => sessions[t].unit_amount = amount

C17_Witness ==
  /\ Len(sessions) = 2
  /\ sessions[1].metadata.tier = "general" /\ sessions[2].metadata.tier = "general"
  /\ sessions[1].metadata.name # sessions[2].metadata.name
  /\ sessions[1].metadata.email # sessions[2].metadata.email
  /\ sessions[2].unit_amount = 100700

\* C18: the metadata of a row never changes once the row exists: id, name,
\* student_name and email are the same in every later state; a step of
\* /confirm-payment changes at most payment_status of a row there is, and a
\* step of /verify changes at most checked_in and checked_in_at of the row
\* with the id of the request and no other row.
C18_MetadataImmutable ==
  [][/\ \A r \in registrations :
          \E q \in registrations' :
            /\ q.id = r.id /\ q.name = r.name
            /\ q.student_name = r.student_name /\ q.email = r.email
     /\ \A p \in Procs :
          /\ (req[p].op = "confirm-payment" /\ pc'[p] # pc[p])
             => \A r \in registrations :
                  \E q \in registrations' :
                    q = [r EXCEPT !.payment_status = q.payment_status]
          /\ (pc[p] = "v_update" /\ pc'[p] # "v_update")
             => \A r \in registrations :
                  IF r.id = req[p].id
                    THEN \E q \in registrations' :
                           q = [r EXCEPT !.checked_in = q.checked_in,
                                         !.checked_in_at = q.checked_in_at]
                    ELSE r \in registrations']_vars

C18_Witness ==
  \E p \in Procs :
    /\ Answered(p, "verify") /\ resp[p].status = "success"
    /\ \E r, q \in registrations :
         /\ r.id = req[p].id /\ r.checked_in /\ r.payment_status = "paid"
         /\ r.name = "Ana" /\ r.email = "a@x"
         /\ q.id # r.id /\ ~q.checked_in

\* C19: in the paid flow alone (/create-checkout, /confirm-payment, /verify),
\* started with an empty store, every row that is checked in is paid.
C19_CheckedInIsPaid ==
  \A r \in registrations : r.checked_in => r.payment_status = "paid"

C19_Witness ==
  /\ Cardinality(registrations) = 2
  /\ \A r \in registrations : r.checked_in /\ r.payment_status = "paid"

\* A /register request that waits for the notifier, or has answered success,
\* has its row in the store; a request whose insert failed has sent no email.
C20_State ==
  \A p \in Procs :
    /\ pc[p] = "rg_send" => RowOf(registrations, loc[p].registrationId) # NoRow
    /\ (Answered(p, "register") /\ resp[p].success)
       => /\ hist[p].mails = 1
          /\ RowOf(registrations, resp[p].id).email = req[p].email
    /\ (Answered(p, "register") /\ resp[p].error = "Error al guardar el registro.")
       => hist[p].mails = 0

\* An insert that adds no row ends a complete /register request with an error
\* and no email; an email is handed over only for a row there is; a failure
\* of the notifier ends the request with an error and leaves the row.
C20_Step ==
  \A p \in Procs :
    /\ (/\ Arrives(p) /\ req'[p].op = "register"
        /\ req'[p].name # "" /\ req'[p].student_name # "" /\ req'[p].email # ""
        /\ registrations' = registrations)
       => /\ pc'[p] = "done"
          /\ resp'[p].code >= 500 /\ ~resp'[p].success
          /\ sent' = sent
    /\ (pc[p] = "rg_send" /\ sent' # sent)
       => RowOf(registrations, loc[p].registrationId) # NoRow
    /\ (pc[p] = "rg_send" /\ "notifier" \in hist'[p].faults)
       => /\ pc'[p] = "done"
          /\ resp'[p].code >= 500 /\ ~resp'[p].success
          /\ sent' = sent
          /\ registrations' = registrations
          /\ RowOf(registrations', loc[p].registrationId) # NoRow

\* C20: in POST /register the row is persisted before the ticket email is
\* dispatched: the notifier is invoked only if the insert succeeded, an insert
\* failure answers an error with no email sent, and an email failure after the
\* insert answers an error while the row stays in the store.
C20_RegisterOrder == []C20_State /\ [][C20_Step]_vars

C20_Witness ==
  \E p \in Procs :
    /\ Answered(p, "register")
    /\ resp[p] = ErrorResp(500, "Registro guardado, pero error al enviar correo.")
    /\ \E r \in registrations : r.email = req[p].email
    /\ \A i \in Ids : sent[i] = 0
====
